---- MODULE Spec2Model ----
(***************************************************************************)
(* A model of kserver: the session token manager (main.rs, router/mod.rs), *)
(* the authorisation middleware in front of the mutating anime endpoints   *)
(* (router/anime_router.rs) and the database helper (helper/db_helper.rs). *)
(*                                                                         *)
(* A session token is 32 random bytes, hex-encoded; the model names a      *)
(* token by a number and lets the generator draw any number it has not     *)
(* drawn before.  Token 0 is never drawn: it stands for a forged token.    *)
(* A one-time password is named by the time step whose code it is.         *)
(***************************************************************************)
EXTENDS Integers, Sequences, FiniteSets, TLC

VARIABLES
    token,        \* AppState.token: the Vec<AuthToken> behind the mutex
    issued,       \* every token gen_token has returned so far (history)
    mock_totp,    \* the environment variable MOCK_TOTP, as std::env::var sees it
    now,          \* the system clock, in seconds
    anime_list,   \* table anime_list: title -> [archived, animes]
    anime_state,  \* table anime_state: anime_id -> [watched_episodes, visibility]
    task,         \* the database operations in flight: task -> its locals
    last          \* the call that made the last step, with what it returned

vars == <<token, issued, mock_totp, now, anime_list, anime_state, task, last>>

(***************************************************************************)
(* Bounds of the model.                                                    *)
(***************************************************************************)
MaxTokens == 3       \* tokens the generator may draw
MaxNow == 150        \* the clock stops here
ClockStart == 60     \* the clock at start-up
TickSeconds == 15    \* seconds the clock advances in one step
MaxAnimes == 2       \* length of a watch list's animes array
MaxEp == 1           \* episode numbers
HalfScale == 4       \* grid points in half an episode (fixed-point f32 values)
MaxFloat == 3        \* the f32 values of the codec run from -MaxFloat to MaxFloat
IntBits == 4         \* width of the integer component of a mark when it is hashed
MaxCallers == 2      \* tasks that call the token manager at the same time
MaxIssued == 2       \* tokens those tasks draw between them

(***************************************************************************)
(* Program constants.                                                      *)
(***************************************************************************)
TotpSkew == 1        \* TOTP::new(_, _, skew = 1, _, ...)
TotpStep == 30       \* TOTP::new(_, _, _, step = 30, ...)

Tokens == 1 .. MaxTokens
Forged == 0
Presented == {Forged} \cup Tokens

Range(s) == {s[i] : i \in 1 .. Len(s)}

(***************************************************************************)
(* The token manager: AppState::auth, gen_token, clear_token.              *)
(***************************************************************************)

\* enum AuthStatus
AuthStatus == {"Authenticated", "AuthNotValid", "AuthExpired", "NotLoggedIn"}

\* The scan both auth and clear_token run: for i in 0..token.len(), stop at
\* the first i with token[i] == in_token.  i is the 1-based position here.
RECURSIVE Scan(_, _, _)
Scan(tok, in_token, i) ==
    IF i > Len(tok) THEN FALSE
    ELSE IF tok[i] = in_token THEN TRUE
    ELSE Scan(tok, in_token, i + 1)

ScanSkipFirst(tok, in_token) == Scan(tok, in_token, 2)

\* `found` after the loop over 0..token.len()
found(tok, in_token) == Scan(tok, in_token, 1)

\* AppState::auth
auth(tok, in_token) ==
    IF ~found(tok, in_token) THEN "NotLoggedIn" ELSE "Authenticated"

\* Vec::push
push(tok, auth_token) == Append(tok, auth_token)

\* Vec::swap_remove(index), index counted from 0: the element at index is
\* replaced by the last element, and the vector shrinks by one.  The caller
\* has checked index < len.
swap_remove(tok, index) ==
    [k \in 1 .. Len(tok) - 1 |-> IF k = index + 1 THEN tok[Len(tok)] ELSE tok[k]]

\* `found as usize`
as_usize(b) == IF b THEN 1 ELSE 0

ClearTokenNoReturn(tok, in_token) ==
    IF Len(tok) <= 1 THEN [token |-> tok, result |-> "Ok"]
    ELSE [token |-> swap_remove(tok, 1), result |-> "Ok"]

\* AppState::clear_token: [token |-> the vector afterwards, result |-> "Ok",
\* or "Panic" when swap_remove's index is out of bounds].  The mutex guard is
\* dropped while unwinding and a tokio mutex is not poisoned, so after a panic
\* the vector is what it was.
clear_token(tok, in_token) ==
    IF ~found(tok, in_token) THEN [token |-> tok, result |-> "Ok"]
    ELSE LET index == as_usize(found(tok, in_token)) IN
         IF index >= Len(tok) THEN [token |-> tok, result |-> "Panic"]
         ELSE [token |-> swap_remove(tok, index), result |-> "Ok"]

(***************************************************************************)
(* One-time passwords: init_totp builds TOTP(SHA256, digits 8, skew 1,     *)
(* step 30) and AppState::verify asks check_current.                       *)
(***************************************************************************)

\* TOTP::generate(time): the code of the step that holds `time`.  A code is
\* named by its step; NoCode is a string that is the code of no step.
generate(time) == time \div TotpStep

NoCode == -1
OtpCodes == {NoCode} \cup (0 .. (MaxNow \div TotpStep) + 3)

\* TOTP::check(token, time): basic_step = time / step - skew, then the codes
\* of the 2 * skew + 1 steps from basic_step on are compared with the token.
check(skew, otp, time) ==
    LET basic_step == (time \div TotpStep) - skew IN
    \E i \in 0 .. (skew * 2) :
        generate((basic_step + i) * TotpStep) = otp

CheckCurrentWide(otp, time) == check(TotpSkew + 1, otp, time)

\* TOTP::check_current(token) at system time `time`
check_current(otp, time) == check(TotpSkew, otp, time)

\* std::env::var("MOCK_TOTP") is Ok(_) when the variable is present and is
\* valid unicode.
EnvValues == {"NotPresent", "Present", "NotUnicode"}
env_var_is_ok(v) == v = "Present"

VerifyBypassByDefault(env, otp, time, clock_ok) ==
    IF env # "NotUnicode" THEN "true"
    ELSE IF ~clock_ok THEN "Err"
    ELSE IF check_current(otp, time) THEN "true" ELSE "false"

\* AppState::verify: Ok(true), Ok(false) or Err(()).  check_current fails
\* when the system clock is before the epoch (clock_ok = FALSE).
verify(env, otp, time, clock_ok) ==
    IF env_var_is_ok(env) THEN "true"
    ELSE IF ~clock_ok THEN "Err"
    ELSE IF check_current(otp, time) THEN "true" ELSE "false"

GenTokenReplace(tok, auth_token) == <<auth_token>>

\* AppState::gen_token: the vector after the new token is pushed
gen_token(tok, auth_token) == push(tok, auth_token)

\* post_log_in; gen_token's random token is one of `fresh`
post_log_in(otp, clock_ok, fresh) ==
    LET ret == verify(mock_totp, otp, now, clock_ok) IN
    /\ UNCHANGED <<mock_totp, now, anime_list, anime_state, task>>
    /\ \/ /\ ret = "Err"
          /\ UNCHANGED <<token, issued>>
          /\ last' = [op |-> "post_log_in", otp |-> otp, verify |-> ret,
                      pre |-> token, status |-> 500, body |-> Forged]
       \/ /\ ret = "true"
          /\ \E auth_token \in fresh :
                /\ token' = gen_token(token, auth_token)
                /\ issued' = issued \cup {auth_token}
                /\ last' = [op |-> "post_log_in", otp |-> otp, verify |-> ret,
                            pre |-> token, status |-> 200, body |-> auth_token]
       \/ /\ ret = "false"
          /\ UNCHANGED <<token, issued>>
          /\ last' = [op |-> "post_log_in", otp |-> otp, verify |-> ret,
                      pre |-> token, status |-> 401, body |-> Forged]

\* post_log_out: Ok(String::new()) after clear_token; when clear_token
\* panics the request's task dies and no response is written (status 0).
post_log_out(in_token) ==
    LET r == clear_token(token, in_token) IN
    /\ token' = r.token
    /\ last' = [op |-> "post_log_out", token |-> in_token, pre |-> token,
                result |-> r.result,
                status |-> IF r.result = "Ok" THEN 200 ELSE 0,
                again |-> last.op = "post_log_out" /\ last.token = in_token
                          /\ last.result = "Ok"]
    /\ UNCHANGED <<issued, mock_totp, now, anime_list, anime_state, task>>

\* A call of AppState::auth, as auth_middleware makes it
Auth(in_token) ==
    /\ last' = [op |-> "auth", token |-> in_token, ret |-> auth(token, in_token)]
    /\ UNCHANGED <<token, issued, mock_totp, now, anime_list, anime_state, task>>

\* The system clock advances
Tick ==
    /\ now + TickSeconds <= MaxNow
    /\ now' = now + TickSeconds
    /\ last' = [op |-> "tick"]
    /\ UNCHANGED <<token, issued, mock_totp, anime_list, anime_state, task>>

NoAnimeList == [t \in {} |-> 0]
NoAnimeState == [a \in {} |-> 0]
NoTask == [k \in {} |-> 0]

\* AppState::new: an empty token vector; the tables are as the database
\* holds them (empty here)
InitToken ==
    /\ token = <<>>
    /\ issued = {}
    /\ mock_totp \in EnvValues
    /\ now = ClockStart
    /\ anime_list = NoAnimeList
    /\ anime_state = NoAnimeState
    /\ task = NoTask
    /\ last = [op |-> "new"]

LogIn ==
    \E otp \in OtpCodes, clock_ok \in BOOLEAN :
        post_log_in(otp, clock_ok, Tokens \ issued)
LogOut == \E in_token \in Presented : post_log_out(in_token)
Authenticate == \E in_token \in Presented : Auth(in_token)

NextToken == LogIn \/ LogOut \/ Authenticate \/ Tick

\* The session token manager on its own
SpecToken == InitToken /\ [][NextToken]_vars

(***************************************************************************)
(* The database helper (helper/db_helper.rs).  A table is a function from  *)
(* the keys of its rows to the rows.  Every statement is atomic; `fail`    *)
(* numbers the awaited call of the operation that returns a                *)
(* tokio_postgres::Error (0: none does), and a statement that fails has    *)
(* changed nothing.                                                        *)
(***************************************************************************)
Titles == {"plan-to-watch", "watching"}
AnimeIds == {41, 42}
Episodes == 1 .. MaxEp

NoRow == [absent |-> TRUE]

\* SELECT ... WHERE key = k: the row, or NoRow when the query returns no row
Row(table, k) == IF k \in DOMAIN table THEN table[k] ELSE NoRow

\* A new anime_state row: the columns the INSERT does not name take their
\* defaults
NewAnimeState == [watched_episodes |-> {}, visibility |-> TRUE]

\* WatchList::new / INSERT INTO anime_list VALUES($1, false, '{}')
NewWatchList == [archived |-> FALSE, animes |-> <<>>]

\* array_append(animes, $1)
array_append(animes, anime_id) == Append(animes, anime_id)

ArrayRemoveFirst(animes, anime_id) ==
    IF \A i \in 1 .. Len(animes) : animes[i] # anime_id THEN animes
    ELSE LET i == CHOOSE i \in 1 .. Len(animes) :
                    /\ animes[i] = anime_id
                    /\ \A j \in 1 .. i - 1 : animes[j] # anime_id
         IN  SubSeq(animes, 1, i - 1) \o SubSeq(animes, i + 1, Len(animes))

\* array_remove(animes, $1): every element equal to $1 is removed
array_remove(animes, anime_id) == SelectSeq(animes, LAMBDA x : x # anime_id)

UpdateAnimesEveryRow(list, title, new_animes) ==
    [t \in DOMAIN list |-> [list[t] EXCEPT !.animes = new_animes]]

\* UPDATE anime_list SET animes = f(animes) WHERE title = $2
UpdateAnimes(list, title, new_animes) ==
    [t \in DOMAIN list |->
        IF t = title THEN [list[t] EXCEPT !.animes = new_animes] ELSE list[t]]

\* SELECT * FROM anime_list WHERE animes @> ARRAY[$1]: the titles of the rows
Containing(list, anime_id) ==
    {t \in DOMAIN list : \E i \in 1 .. Len(list[t].animes) : list[t].animes[i] = anime_id}

\* The animes of the row of title; none when there is no row
Members(list, title) == IF title \in DOMAIN list THEN list[title].animes ELSE <<>>

\* DELETE FROM table WHERE key = $1
DeleteRow(table, k) == [x \in DOMAIN table \ {k} |-> table[x]]

\* INSERT one row
InsertRow(table, k, row) == [x \in DOMAIN table \cup {k} |-> IF x = k THEN row ELSE table[x]]

Outcome(list, state, result) == [list |-> list, state |-> state, result |-> result]

\* The tables' unique keys (anime_state.anime_id, anime_list.title): an
\* INSERT of a key that has a row is refused
UniqueViolation(table, k) == k \in DOMAIN table

\* DbHelper::insert_anime_item
insert_anime_item(list, state, anime_id, fail) ==
    IF fail = 1 \/ UniqueViolation(state, anime_id)
    THEN Outcome(list, state, "PostgresError")
    ELSE Outcome(list, InsertRow(state, anime_id, NewAnimeState), "Ok")

\* DbHelper::add_item_to_watch_list: prepare (1), execute (2)
add_item_to_watch_list(list, state, anime_id, watch_list_name, fail) ==
    IF fail \in {1, 2} THEN Outcome(list, state, "PostgresError")
    ELSE IF watch_list_name \notin DOMAIN list THEN Outcome(list, state, "Ok")
    ELSE Outcome(UpdateAnimes(list, watch_list_name,
                     array_append(list[watch_list_name].animes, anime_id)),
                 state, "Ok")

AddNewWatchListUpserts(list, state, watch_list_name, fail) ==
    IF fail = 1 THEN Outcome(list, state, "PostgresError")
    ELSE Outcome(InsertRow(list, watch_list_name, NewWatchList), state, "Ok")

\* DbHelper::add_new_watch_list
add_new_watch_list(list, state, watch_list_name, fail) ==
    IF fail = 1 \/ UniqueViolation(list, watch_list_name)
    THEN Outcome(list, state, "PostgresError")
    ELSE Outcome(InsertRow(list, watch_list_name, NewWatchList), state, "Ok")

\* DbHelper::update_watch_list_archive_state: prepare (1), execute (2)
update_watch_list_archive_state(list, state, watch_list_name, archived, fail) ==
    IF fail \in {1, 2} THEN Outcome(list, state, "PostgresError")
    ELSE Outcome([t \in DOMAIN list |->
                    IF t = watch_list_name
                    THEN [list[t] EXCEPT !.archived = archived] ELSE list[t]],
                 state, "Ok")

\* DbHelper::update_anime_visibility: prepare (1), execute (2)
update_anime_visibility(list, state, anime_id, visibility, fail) ==
    IF fail \in {1, 2} THEN Outcome(list, state, "PostgresError")
    ELSE Outcome(list,
                 [a \in DOMAIN state |->
                    IF a = anime_id
                    THEN [state[a] EXCEPT !.visibility = visibility] ELSE state[a]],
                 "Ok")

DeleteWatchListChecksRow(list, state, watch_list_name, fail) ==
    IF fail = 1 THEN Outcome(list, state, "PostgresError")
    ELSE IF watch_list_name \notin DOMAIN list
        THEN Outcome(list, state, "WatchListNotFound")
    ELSE Outcome(DeleteRow(list, watch_list_name), state, "Ok")

\* DbHelper::delete_watch_list
delete_watch_list(list, state, watch_list_name, fail) ==
    IF fail = 1 THEN Outcome(list, state, "PostgresError")
    ELSE Outcome(DeleteRow(list, watch_list_name), state, "Ok")

UpdateEpisodeNeverRemoves(list, state, anime_id, ep, watched, fail) ==
    IF fail = 1 THEN Outcome(list, state, "PostgresError")
    ELSE IF anime_id \notin DOMAIN state THEN Outcome(list, state, "Panic")
    ELSE LET read == state[anime_id].watched_episodes
             watched_episode == IF watched THEN read \cup {ep} ELSE read
         IN  IF fail = 2 THEN Outcome(list, state, "PostgresError")
             ELSE Outcome(list,
                          [state EXCEPT ![anime_id].watched_episodes = watched_episode],
                          "Ok")

\* DbHelper::update_episode_watched_state: query (1), execute (2).
\* watched_episode[0] panics when the query returned no row.
update_episode_watched_state(list, state, anime_id, ep, watched, fail) ==
    IF fail = 1 THEN Outcome(list, state, "PostgresError")
    ELSE IF anime_id \notin DOMAIN state THEN Outcome(list, state, "Panic")
    ELSE LET read == state[anime_id].watched_episodes
             watched_episode == IF watched THEN read \cup {ep} ELSE read \ {ep}
         IN  IF fail = 2 THEN Outcome(list, state, "PostgresError")
             ELSE Outcome(list,
                          [state EXCEPT ![anime_id].watched_episodes = watched_episode],
                          "Ok")

\* DbHelper::query_anime_by_id: query (1); rows[0] panics (index out of
\* bounds) when the query returned no row
query_anime_by_id(state, anime_id, fail) ==
    IF fail = 1 THEN "PostgresError"
    ELSE IF Row(state, anime_id) = NoRow THEN "Panic"
    ELSE "Ok"

\* DbHelper::get_watch_list: query (1); rows[0] panics when the query
\* returned no row
get_watch_list(list, watch_list_name, fail) ==
    IF fail = 1 THEN "PostgresError"
    ELSE IF Row(list, watch_list_name) = NoRow THEN "Panic"
    ELSE "Ok"

DeleteStateAlways(list, state, anime_id, watch_list_name, fail) ==
    Outcome(IF watch_list_name \in DOMAIN list
            THEN UpdateAnimes(list, watch_list_name,
                     array_remove(list[watch_list_name].animes, anime_id))
            ELSE list,
            DeleteRow(state, anime_id), "Ok")

DeleteThenFail(list, state, anime_id, watch_list_name, fail) ==
    IF fail \in {1, 2} THEN Outcome(list, state, "PostgresError")
    ELSE LET removed == IF watch_list_name \in DOMAIN list
                        THEN UpdateAnimes(list, watch_list_name,
                                 array_remove(list[watch_list_name].animes, anime_id))
                        ELSE list
         IN  IF fail \in {3, 4} THEN Outcome(removed, DeleteRow(state, anime_id), "PostgresError")
             ELSE LET rows == Containing(removed, anime_id) IN
                  IF Cardinality(rows) = 0
                  THEN IF fail = 5 THEN Outcome(removed, state, "PostgresError")
                       ELSE Outcome(removed, DeleteRow(state, anime_id), "Ok")
                  ELSE Outcome(removed, state, "Ok")

\* DbHelper::delete_anime_state_from_watch_list: prepare (1), execute (2) the
\* array_remove; prepare (3), query (4) the lists that hold anime_id; execute
\* (5) the DELETE when there is none.
delete_anime_state_from_watch_list(list, state, anime_id, watch_list_name, fail) ==
    IF fail \in {1, 2} THEN Outcome(list, state, "PostgresError")
    ELSE LET removed == IF watch_list_name \in DOMAIN list
                        THEN UpdateAnimes(list, watch_list_name,
                                 array_remove(list[watch_list_name].animes, anime_id))
                        ELSE list
         IN  IF fail \in {3, 4} THEN Outcome(removed, state, "PostgresError")
             ELSE LET rows == Containing(removed, anime_id) IN
                  IF Cardinality(rows) = 0
                  THEN IF fail = 5 THEN Outcome(removed, state, "PostgresError")
                       ELSE Outcome(removed, DeleteRow(state, anime_id), "Ok")
                  ELSE Outcome(removed, state, "Ok")

(***************************************************************************)
(* The database helper's operations as steps: each runs from its first     *)
(* statement to its return with no other operation in between.             *)
(***************************************************************************)
Apply(o) == anime_list' = o.list /\ anime_state' = o.state

Session == <<token, issued, mock_totp, now, task>>

InsertAnimeItem ==
    \E anime_id \in AnimeIds, fail \in 0 .. 1 :
        LET o == insert_anime_item(anime_list, anime_state, anime_id, fail) IN
        /\ Apply(o)
        /\ last' = [op |-> "insert_anime_item", anime_id |-> anime_id,
                    result |-> o.result]
        /\ UNCHANGED Session

AddItemToWatchList ==
    \E anime_id \in AnimeIds, title \in Titles, fail \in 0 .. 2 :
        LET o == add_item_to_watch_list(anime_list, anime_state, anime_id, title, fail) IN
        /\ title \in DOMAIN anime_list => Len(anime_list[title].animes) < MaxAnimes
        /\ Apply(o)
        /\ last' = [op |-> "add_item_to_watch_list", anime_id |-> anime_id,
                    title |-> title, result |-> o.result]
        /\ UNCHANGED Session

AddNewWatchList ==
    \E title \in Titles, fail \in 0 .. 1 :
        LET o == add_new_watch_list(anime_list, anime_state, title, fail) IN
        /\ Apply(o)
        /\ last' = [op |-> "add_new_watch_list", title |-> title,
                    result |-> o.result]
        /\ UNCHANGED Session

UpdateWatchListArchiveState ==
    \E title \in Titles, archived \in BOOLEAN, fail \in 0 .. 2 :
        LET o == update_watch_list_archive_state(anime_list, anime_state, title,
                                                 archived, fail) IN
        /\ Apply(o)
        /\ last' = [op |-> "update_watch_list_archive_state", title |-> title,
                    result |-> o.result]
        /\ UNCHANGED Session

UpdateAnimeVisibility ==
    \E anime_id \in AnimeIds, visibility \in BOOLEAN, fail \in 0 .. 2 :
        LET o == update_anime_visibility(anime_list, anime_state, anime_id,
                                         visibility, fail) IN
        /\ Apply(o)
        /\ last' = [op |-> "update_anime_visibility", anime_id |-> anime_id,
                    result |-> o.result]
        /\ UNCHANGED Session

DeleteWatchList ==
    \E title \in Titles, fail \in 0 .. 1 :
        LET o == delete_watch_list(anime_list, anime_state, title, fail) IN
        /\ Apply(o)
        /\ last' = [op |-> "delete_watch_list", title |-> title,
                    result |-> o.result,
                    existed |-> title \in DOMAIN anime_list]
        /\ UNCHANGED Session

\* last keeps what the operation found: the anime's row and whether the list
\* held the anime before the call.
DeleteAnimeStateFromWatchList ==
    \E anime_id \in AnimeIds, title \in Titles, fail \in 0 .. 5 :
        LET o == delete_anime_state_from_watch_list(anime_list, anime_state,
                                                    anime_id, title, fail) IN
        /\ Apply(o)
        /\ last' = [op |-> "delete_anime_state_from_watch_list",
                    anime_id |-> anime_id, title |-> title,
                    result |-> o.result,
                    pre_row |-> Row(anime_state, anime_id),
                    pre_holders |-> Containing(anime_list, anime_id)]
        /\ UNCHANGED Session

\* The reads return the row they found; the tables stay as they are
QueryAnimeById ==
    \E anime_id \in AnimeIds, fail \in 0 .. 1 :
        /\ last' = [op |-> "query_anime_by_id", anime_id |-> anime_id,
                    result |-> query_anime_by_id(anime_state, anime_id, fail)]
        /\ UNCHANGED <<anime_list, anime_state, Session>>

GetWatchList ==
    \E title \in Titles, fail \in 0 .. 1 :
        /\ last' = [op |-> "get_watch_list", title |-> title,
                    result |-> get_watch_list(anime_list, title, fail)]
        /\ UNCHANGED <<anime_list, anime_state, Session>>

InitDb ==
    /\ token = <<>>
    /\ issued = {}
    /\ mock_totp = "NotPresent"
    /\ now = ClockStart
    /\ anime_list = NoAnimeList
    /\ anime_state = NoAnimeState
    /\ task = NoTask
    /\ last = [op |-> "new"]

NextDb ==
    \/ InsertAnimeItem
    \/ AddItemToWatchList
    \/ AddNewWatchList
    \/ UpdateWatchListArchiveState
    \/ UpdateAnimeVisibility
    \/ DeleteWatchList
    \/ DeleteAnimeStateFromWatchList

\* The watch lists and the anime states, operation by operation
SpecDb == InitDb /\ [][NextDb]_vars

\* The watch-list store and the single-row fetches
NextLists ==
    \/ QueryAnimeById
    \/ GetWatchList
    \/ InsertAnimeItem
    \/ AddNewWatchList
    \/ AddItemToWatchList
    \/ UpdateWatchListArchiveState
    \/ DeleteWatchList

SpecLists == InitDb /\ [][NextLists]_vars

(***************************************************************************)
(* The router and the authorisation middleware (router/anime_router.rs,    *)
(* main.rs).  An Authorization header is Absent, or NotText (a value that  *)
(* HeaderValue::to_str rejects), or Text(words), words being the strings   *)
(* between its single spaces, which is what split(" ") returns.            *)
(***************************************************************************)
MutatingRoutes ==
    {"/insert_anime_item", "/add_item_to_watch_list", "/add_new_watch_list",
     "/update_episode_watched_state", "/update_anime_visibility",
     "/update_watch_list_archived", "/delete_watch_list",
     "/delete_anime_state_from_watch_list"}

LayeredBeforeDelete(route) ==
    route \in MutatingRoutes
              \ {"/delete_watch_list", "/delete_anime_state_from_watch_list"}

LayeredEveryRoute(route) == TRUE

\* create_router: .layer(auth_middleware) wraps the routes added before it
layered(route) == route \in MutatingRoutes

Absent == [kind |-> "Absent", words |-> <<>>]
NotText == [kind |-> "NotText", words |-> <<>>]
Text(words) == [kind |-> "Text", words |-> words]
Headers ==
    {Absent, NotText, Text(<<"Bearer">>)}
        \cup {Text(<<"Bearer", t>>) : t \in Presented}
        \cup {Text(<<"Bearer", t, t>>) : t \in Presented}

\* auth_middleware: whether the request goes on to its handler, and the
\* status of the response when it does not (0: to_str().unwrap() panicked
\* and no response is written)
auth_middleware(tok, header) ==
    IF header.kind = "Absent" THEN [next |-> FALSE, status |-> 401]
    ELSE IF header.kind = "NotText" THEN [next |-> FALSE, status |-> 0]
    ELSE LET words == header.words IN
         IF Len(words) # 2 THEN [next |-> FALSE, status |-> 401]
         ELSE LET ret == auth(tok, words[2]) IN
              IF ret = "Authenticated" THEN [next |-> TRUE, status |-> 0]
              ELSE [next |-> FALSE, status |-> 401]

\* What kind of header the request had, and whether its second word is a
\* live token
HeaderKind(header) ==
    IF header.kind # "Text" THEN header.kind
    ELSE IF Len(header.words) = 1 THEN "OneWord"
    ELSE IF Len(header.words) = 2 THEN "TwoWords" ELSE "ThreeWords"

PresentsLiveToken(tok, header) ==
    header.kind = "Text" /\ Len(header.words) = 2 /\ header.words[2] \in Range(tok)

\* The handlers' responses: the status on Ok, 500 on a DbError (the handlers
\* of anime_router.rs answer every DbError the helper returns with
\* internal_error!), no response (0) when the helper panicked.
Respond(result, ok_status) ==
    IF result = "Ok" THEN ok_status
    ELSE IF result = "PostgresError" THEN 500 ELSE 0

\* A request to `route`: the middleware, when the route is layered, and then
\* the handler, which ends as one of `outcomes` (one for each body the
\* request may carry and each statement that may fail) and answers
\* ok_status on success
Request(route, outcomes, ok_status) ==
    /\ \E header \in Headers :
          LET mw == IF layered(route) THEN auth_middleware(token, header)
                    ELSE [next |-> TRUE, status |-> 0] IN
          IF mw.next
          THEN \E o \in outcomes :
                  /\ Apply(o)
                  /\ last' = [op |-> route, header |-> HeaderKind(header),
                              live |-> PresentsLiveToken(token, header),
                              handled |-> TRUE,
                              status |-> Respond(o.result, ok_status)]
          ELSE /\ UNCHANGED <<anime_list, anime_state>>
               /\ last' = [op |-> route, header |-> HeaderKind(header),
                           live |-> PresentsLiveToken(token, header),
                           handled |-> FALSE, status |-> mw.status]
    /\ UNCHANGED Session

\* The titles and ids the requests of Spec carry
RequestTitles == {"watching"}
RequestAnimeIds == {42}

post_insert_item ==
    Request("/insert_anime_item",
            {insert_anime_item(anime_list, anime_state, anime_id, fail) :
                anime_id \in RequestAnimeIds, fail \in 0 .. 1},
            201)

post_add_item_to_watch_list ==
    Request("/add_item_to_watch_list",
            {add_item_to_watch_list(anime_list, anime_state, anime_id, title, fail) :
                anime_id \in RequestAnimeIds,
                title \in {t \in RequestTitles :
                             t \in DOMAIN anime_list
                                => Len(anime_list[t].animes) < MaxAnimes},
                fail \in 0 .. 2},
            201)

post_add_new_watch_list ==
    Request("/add_new_watch_list",
            {add_new_watch_list(anime_list, anime_state, title, fail) :
                title \in RequestTitles, fail \in 0 .. 1},
            201)

post_update_episode_watched_state ==
    Request("/update_episode_watched_state",
            {update_episode_watched_state(anime_list, anime_state, anime_id,
                                          ep, watched, fail) :
                anime_id \in RequestAnimeIds, ep \in Episodes,
                watched \in BOOLEAN, fail \in 0 .. 2},
            200)

post_update_watch_list_archived ==
    Request("/update_watch_list_archived",
            {update_watch_list_archive_state(anime_list, anime_state, title,
                                             archived, fail) :
                title \in RequestTitles, archived \in BOOLEAN, fail \in 0 .. 2},
            200)

post_update_anime_visibility ==
    Request("/update_anime_visibility",
            {update_anime_visibility(anime_list, anime_state, anime_id,
                                     visible, fail) :
                anime_id \in RequestAnimeIds, visible \in BOOLEAN, fail \in 0 .. 2},
            200)

post_delete_watch_list ==
    Request("/delete_watch_list",
            {delete_watch_list(anime_list, anime_state, title, fail) :
                title \in RequestTitles, fail \in 0 .. 1},
            200)

post_delete_anime_state_from_watch_list ==
    Request("/delete_anime_state_from_watch_list",
            {delete_anime_state_from_watch_list(anime_list, anime_state,
                                                anime_id, title, fail) :
                anime_id \in RequestAnimeIds, title \in RequestTitles,
                fail \in 0 .. 5},
            200)

\* A login with the current step's code or with a string that is no code; the
\* new token is named by the least number not yet drawn
LogInNow ==
    \E otp \in {NoCode, generate(now)}, clock_ok \in BOOLEAN :
        post_log_in(otp, clock_ok, {t \in Tokens \ issued : \A u \in Tokens \ issued : t <= u})

\* create_app: AppState::new, then the server takes requests
Init ==
    /\ token = <<>>
    /\ issued = {}
    /\ mock_totp = "NotPresent"
    /\ now = ClockStart
    /\ anime_list = NoAnimeList
    /\ anime_state = NoAnimeState
    /\ task = NoTask
    /\ last = [op |-> "new"]

Next ==
    \/ LogInNow
    \/ LogOut
    \/ post_insert_item
    \/ post_add_item_to_watch_list
    \/ post_add_new_watch_list
    \/ post_update_episode_watched_state
    \/ post_update_watch_list_archived
    \/ post_update_anime_visibility
    \/ post_delete_watch_list
    \/ post_delete_anime_state_from_watch_list

\* The server: login, logout and the mutating endpoints behind the middleware
Spec == Init /\ [][Next]_vars

(***************************************************************************)
(* The middleware's property, under Spec.                                  *)
(***************************************************************************)

C2_RevokeRemovesToken ==
    (last.op = "post_log_out" /\ last.result = "Ok"
        /\ last.token \in Range(last.pre))
    => (last.token \notin Range(token) /\ auth(token, last.token) = "NotLoggedIn")

\* C3: revoke(u) leaves the membership of every other token t in the live
\* set as it was, so authenticate(t) returns what it returned before.
C3_RevokeKeepsOtherTokens ==
    last.op = "post_log_out"
    => \A t \in Presented \ {last.token} :
          /\ (t \in Range(token)) <=> (t \in Range(last.pre))
          /\ auth(token, t) = auth(last.pre, t)

\* C4: revoke(t) for a token t that is not in the live set returns without
\* error and leaves the set as it was: same members, same order.
C4_RevokeAbsentIsNoOp ==
    (last.op = "post_log_out" /\ last.token \notin Range(last.pre))
    => (last.result = "Ok" /\ last.status = 200 /\ token = last.pre)

C4_Witness ==
    /\ last.op = "post_log_out"
    /\ last.token \notin Range(last.pre)
    /\ last.token \in issued
    /\ Len(last.pre) >= 2

\* C5: logout always returns Ok, and a second logout with the same token
\* returns Ok and leaves the set as the first call left it.
C5_LogoutOkAndIdempotent ==
    last.op = "post_log_out"
    => /\ last.status = 200
       /\ last.again => token = last.pre

\* C6: authenticate(t) returns Authenticated iff t is a member of the live
\* set and NotLoggedIn otherwise, never AuthNotValid or AuthExpired; a token
\* that was never issued gets NotLoggedIn.
C6_AuthIffMember ==
    last.op = "auth"
    => /\ last.ret \in AuthStatus \ {"AuthNotValid", "AuthExpired"}
       /\ (last.ret = "Authenticated") <=> (last.token \in Range(token))
       /\ (last.ret = "NotLoggedIn") <=> (last.token \notin Range(token))
       /\ last.token \notin issued => last.ret = "NotLoggedIn"

C6_Witness ==
    /\ last.op = "auth"
    /\ last.ret = "Authenticated"
    /\ Len(token) >= 2
    /\ token[Len(token)] = last.token
    /\ issued \ Range(token) # {}

\* C7: the token issueToken returns is in the live set when it returns, so
\* authenticate on it returns Authenticated, and no token that was live
\* before has been removed.
C7_IssuedTokenIsLive ==
    (last.op = "post_log_in" /\ last.status = 200)
    => /\ last.body \in Range(token)
       /\ auth(token, last.body) = "Authenticated"
       /\ \A t \in Range(last.pre) : t \in Range(token)

C7_Witness ==
    /\ last.op = "post_log_in"
    /\ last.status = 200
    /\ Len(last.pre) >= 2

\* C8: login returns a token only when verification returned true, and then
\* the live set is the old one with exactly that new token appended; when
\* verification returned false login answers 401 and the set is unchanged.
\* Without MOCK_TOTP in the environment verification is true only if the
\* TOTP check accepts the code; the bypass needs the variable to be set.
C8_LoginOnlyAfterVerification ==
    last.op = "post_log_in"
    => /\ last.status = 200
            => /\ last.verify = "true"
               /\ last.body \notin Range(last.pre)
               /\ token = Append(last.pre, last.body)
       /\ last.verify = "false" => (last.status = 401 /\ token = last.pre)
       /\ last.status # 200 => (last.body = Forged /\ token = last.pre)
       /\ (mock_totp = "NotPresent" /\ last.verify = "true")
            => check_current(last.otp, now)
       /\ (last.verify = "true" /\ ~check_current(last.otp, now))
            => mock_totp = "Present"

C8_Witness ==
    /\ last.op = "post_log_in"
    /\ last.status = 200
    /\ mock_totp = "NotPresent"
    /\ Len(last.pre) >= 1

C8_WitnessRejected ==
    /\ last.op = "post_log_in"
    /\ last.status = 401
    /\ mock_totp = "NotPresent"
    /\ Len(token) >= 1

\* C9: without the bypass, verifyOneTimePassword accepts a code only if it
\* is the code of a 30-second step at most one step from the current one,
\* and rejects the code of every step two or more steps away.
current_step == now \div 30
Distance(a, b) == IF a >= b THEN a - b ELSE b - a
StepOfCode(otp) == otp

C9_TotpWindow ==
    (last.op = "post_log_in" /\ mock_totp # "Present")
    => /\ last.verify = "true"
            => (last.otp # NoCode /\ Distance(StepOfCode(last.otp), current_step) <= 1)
       /\ (last.otp # NoCode /\ Distance(StepOfCode(last.otp), current_step) >= 2)
            => last.verify # "true"

C9_Witness ==
    /\ last.op = "post_log_in"
    /\ mock_totp = "NotPresent"
    /\ last.verify = "true"
    /\ StepOfCode(last.otp) = current_step + 1
    /\ now > ClockStart

C9_WitnessRejected ==
    /\ last.op = "post_log_in"
    /\ mock_totp = "NotPresent"
    /\ last.verify = "false"
    /\ StepOfCode(last.otp) = current_step - 2

(***************************************************************************)
(* The consistency engine's properties, under SpecDb.                      *)
(***************************************************************************)

\* C10: when removeAnimeFromList(id, title) has run to its end, the id is in
\* no row of title, and AnimeState(id) has been deleted iff no watch list
\* holds id any more: it is absent when no list holds id, and it is the row
\* it was before (present if it was present) when another list still does.
C10_StateDeletedIffUnreferenced ==
    (last.op = "delete_anime_state_from_watch_list" /\ last.result = "Ok")
    => LET id == last.anime_id
           holders == {t \in DOMAIN anime_list : id \in Range(anime_list[t].animes)}
           before == last.pre_row
           after == Row(anime_state, id)
       IN  /\ last.title \notin holders
           /\ holders = last.pre_holders \ {last.title}
           /\ holders = {} => after = NoRow
           /\ holders # {} => after = before
           /\ before # NoRow => ((after = NoRow) <=> (holders = {}))

C10_Witness ==
    /\ last.op = "delete_anime_state_from_watch_list"
    /\ last.result = "Ok"
    /\ last.title \in last.pre_holders
    /\ Containing(anime_list, last.anime_id) # {}
    /\ last.pre_row # NoRow
    /\ ~last.pre_row.visibility
    /\ Row(anime_state, last.anime_id) = last.pre_row

C10_WitnessDeleted ==
    /\ last.op = "delete_anime_state_from_watch_list"
    /\ last.result = "Ok"
    /\ last.pre_holders = {last.title}
    /\ last.pre_row # NoRow
    /\ Row(anime_state, last.anime_id) = NoRow
    /\ DOMAIN anime_state # {}

(***************************************************************************)
(* The store operations one after another, as a caller that keeps to the   *)
(* pairing rule issues them: every insert_anime_item is followed at once   *)
(* by add_item_to_watch_list of the same id, the anime added to a list     *)
(* has a row, the list it is added to exists, and no statement fails.      *)
(***************************************************************************)

\* last keeps the row before the call (pre) and, when the call unmarks the
\* episode that the call before it marked, the row before that call (pair_pre).
UpdateEpisodeWatchedState ==
    \E anime_id \in AnimeIds, ep \in Episodes, watched \in BOOLEAN, fail \in 0 .. 2 :
        LET o == update_episode_watched_state(anime_list, anime_state, anime_id,
                                              ep, watched, fail) IN
        /\ Apply(o)
        /\ last' = [op |-> "update_episode_watched_state", anime_id |-> anime_id,
                    ep |-> ep, watched |-> watched, result |-> o.result,
                    pre |-> Row(anime_state, anime_id),
                    pair_pre |-> IF /\ last.op = "update_episode_watched_state"
                                    /\ last.anime_id = anime_id /\ last.ep = ep
                                    /\ last.watched /\ ~watched
                                    /\ last.result = "Ok"
                                 THEN last.pre ELSE NoRow]
        /\ UNCHANGED Session

\* An insert_anime_item has returned and its add_item_to_watch_list is due
InsertPending == last.op = "insert_anime_item"

\* The caller issues one operation, which succeeds
Call(operation) == ~InsertPending /\ operation /\ last'.result = "Ok"

\* add_item_to_watch_list of an anime that has a row, to a list that exists;
\* after an insert_anime_item, of the anime just inserted
PairedAdd ==
    /\ AddItemToWatchList
    /\ last'.result = "Ok"
    /\ InsertPending => last'.anime_id = last.anime_id
    /\ last'.anime_id \in DOMAIN anime_state
    /\ last'.title \in DOMAIN anime_list

NextStore ==
    \/ Call(InsertAnimeItem)
    \/ PairedAdd
    \/ Call(AddNewWatchList)
    \/ Call(UpdateWatchListArchiveState)
    \/ Call(UpdateAnimeVisibility)
    \/ Call(UpdateEpisodeWatchedState)
    \/ Call(DeleteWatchList)
    \/ Call(DeleteAnimeStateFromWatchList)

SpecStore == InitDb /\ [][NextStore]_vars

\* No operation in flight: no insert is waiting for its add
Quiescent == ~InsertPending

\* I1 for one anime: it has a row exactly when some list holds it
I1(anime_id) ==
    anime_id \in DOMAIN anime_state <=> Containing(anime_list, anime_id) # {}

\* C11: under SpecStore, in every state in which no operation is in flight,
\* an anime has an anime_state row if and only if at least one watch list
\* holds its id: no operation leaves an orphaned row behind.
C11_I1InQuiescentStates ==
    Quiescent => \A anime_id \in AnimeIds : I1(anime_id)

(***************************************************************************)
(* delete_anime_state_from_watch_list statement by statement.  The         *)
(* function awaits the database three times (array_remove, the query for   *)
(* the lists that hold the anime, the DELETE) with no transaction around   *)
(* them, so the statements of other requests run between its own.  task[k] *)
(* holds the locals of the call in flight; with them the model keeps the   *)
(* anime's row and the lists that held it when the call started, and, in   *)
(* `others`, the operations on the same anime that ran since its query.    *)
(***************************************************************************)
RemoveTasks == {"remove"}

Running(k) == k \in DOMAIN task

\* The call k starts, or goes on, with these locals
Locals(k, locals) ==
    [x \in DOMAIN task \cup {k} |-> IF x = k THEN locals ELSE task[x]]

Clock == <<token, issued, mock_totp, now>>

\* client.execute(UPDATE anime_list SET animes = array_remove(animes, $1) ...)
RemoveArrayRemove(k) ==
    /\ ~Running(k)
    /\ \E anime_id \in AnimeIds, watch_list_name \in Titles :
        /\ anime_list' = IF watch_list_name \in DOMAIN anime_list
                         THEN UpdateAnimes(anime_list, watch_list_name,
                                  array_remove(anime_list[watch_list_name].animes,
                                               anime_id))
                         ELSE anime_list
        /\ task' = Locals(k, [op |-> "delete_anime_state_from_watch_list",
                              anime_id |-> anime_id,
                              watch_list_name |-> watch_list_name,
                              pc |-> "query",
                              pre_row |-> Row(anime_state, anime_id),
                              pre_holders |-> Containing(anime_list, anime_id),
                              others |-> {}])
    /\ last' = [op |-> "execute", task |-> k]
    /\ UNCHANGED <<anime_state, Clock>>

RemoveQueryIgnoresRows(k) ==
    /\ Running(k) /\ task[k].pc = "query"
    /\ task' = Locals(k, [task[k] EXCEPT !.pc = "delete", !.others = {}])
    /\ last' = [op |-> "query", task |-> k]
    /\ UNCHANGED <<anime_list, anime_state, Clock>>

\* client.query(SELECT * FROM anime_list WHERE animes @> ARRAY[$1]) and
\* `if rows.len() == 0`: on to the DELETE, or Ok(()) at once
RemoveQuery(k) ==
    /\ Running(k) /\ task[k].pc = "query"
    /\ LET rows == Containing(anime_list, task[k].anime_id) IN
       IF Cardinality(rows) = 0
       THEN /\ task' = Locals(k, [task[k] EXCEPT !.pc = "delete", !.others = {}])
            /\ last' = [op |-> "query", task |-> k]
       ELSE /\ task' = DeleteRow(task, k)
            /\ last' = [op |-> task[k].op, anime_id |-> task[k].anime_id,
                        title |-> task[k].watch_list_name, result |-> "Ok",
                        deleted |-> FALSE, pre_row |-> task[k].pre_row,
                        pre_holders |-> task[k].pre_holders, others |-> {}]
    /\ UNCHANGED <<anime_list, anime_state, Clock>>

\* client.execute(DELETE FROM anime_state WHERE anime_id = $1) and Ok(())
RemoveDelete(k) ==
    /\ Running(k) /\ task[k].pc = "delete"
    /\ anime_state' = DeleteRow(anime_state, task[k].anime_id)
    /\ task' = DeleteRow(task, k)
    /\ last' = [op |-> task[k].op, anime_id |-> task[k].anime_id,
                title |-> task[k].watch_list_name, result |-> "Ok",
                deleted |-> TRUE, pre_row |-> task[k].pre_row,
                pre_holders |-> task[k].pre_holders, others |-> task[k].others]
    /\ UNCHANGED <<anime_list, Clock>>

\* Another request's add_item_to_watch_list; the calls in flight on the same
\* anime note it when it changed a row
AddItemMeanwhile ==
    \E anime_id \in AnimeIds, title \in Titles :
        LET o == add_item_to_watch_list(anime_list, anime_state, anime_id, title, 0) IN
        /\ title \in DOMAIN anime_list => Len(anime_list[title].animes) < MaxAnimes
        /\ Apply(o)
        /\ task' = [k \in DOMAIN task |->
                      IF task[k].anime_id = anime_id /\ title \in DOMAIN anime_list
                      THEN [task[k] EXCEPT !.others = @ \cup {"add_item_to_watch_list"}]
                      ELSE task[k]]
        /\ last' = [op |-> "add_item_to_watch_list", anime_id |-> anime_id,
                    title |-> title, result |-> o.result]
        /\ UNCHANGED Clock

NextRemove ==
    \/ InsertAnimeItem
    \/ AddNewWatchList
    \/ AddItemMeanwhile
    \/ \E k \in RemoveTasks : RemoveArrayRemove(k)
    \/ \E k \in RemoveTasks : RemoveQuery(k)
    \/ \E k \in RemoveTasks : RemoveDelete(k)

SpecRemove == InitDb /\ [][NextRemove]_vars

\* A delete_anime_state_from_watch_list has just returned Ok after deleting
\* the row of an anime that some watch list holds
DeletedWhileHeld ==
    /\ last.op = "delete_anime_state_from_watch_list"
    /\ last.deleted
    /\ last.pre_row # NoRow
    /\ last.anime_id \notin DOMAIN anime_state
    /\ Containing(anime_list, last.anime_id) # {}

\* C12: under SpecRemove, a delete_anime_state_from_watch_list that returns
\* having deleted the row of an anime which a watch list holds had an
\* add_item_to_watch_list of that anime run between its query and its DELETE;
\* C12_Witness is such a return: the operation is not atomic.
C12_DeletedWhileHeldOnlyByRace ==
    DeletedWhileHeld => "add_item_to_watch_list" \in last.others

C12_Witness ==
    /\ DeletedWhileHeld
    /\ last.title \in last.pre_holders
    /\ "add_item_to_watch_list" \in last.others
    /\ \E B \in Containing(anime_list, last.anime_id) : B # last.title

(***************************************************************************)
(* update_episode_watched_state statement by statement: the query that     *)
(* reads the whole watched_episodes set of the anime, then the UPDATE that *)
(* writes the whole set back, with other requests' statements in between.  *)
(* task[k] holds the locals of the call in flight.                         *)
(***************************************************************************)
EpisodeTasks == {"first", "second"}

\* The i32 episode numbers the requests carry
WholeEpisodes == 1 .. MaxEp + 1

\* `if watched { insert(ep) } else { remove(&ep) }` on the set that was read
Modified(read, ep, watched) == IF watched THEN read \cup {ep} ELSE read \ {ep}

\* client.query(SELECT watched_episodes ...), watched_episode[0] and the
\* insert or remove on the HashSet; watched_episode[0] panics when the query
\* returned no row
EpisodeQuery(k) ==
    /\ ~Running(k)
    /\ \E anime_id \in RequestAnimeIds, ep \in WholeEpisodes, watched \in BOOLEAN :
        IF anime_id \notin DOMAIN anime_state
        THEN /\ last' = [op |-> "update_episode_watched_state",
                         anime_id |-> anime_id, ep |-> ep, watched |-> watched,
                         result |-> "Panic"]
             /\ UNCHANGED task
        ELSE /\ task' = Locals(k, [op |-> "update_episode_watched_state",
                                   anime_id |-> anime_id, ep |-> ep,
                                   watched |-> watched,
                                   read |-> anime_state[anime_id].watched_episodes])
             /\ last' = [op |-> "query", task |-> k]
    /\ UNCHANGED <<anime_list, anime_state, Clock>>

EpisodeExecuteMerges(k) ==
    /\ Running(k)
    /\ LET c == task[k]
       IN  /\ anime_state' =
                 [a \in DOMAIN anime_state |->
                    IF a = c.anime_id
                    THEN [anime_state[a] EXCEPT !.watched_episodes =
                              Modified(@, c.ep, c.watched)]
                    ELSE anime_state[a]]
           /\ last' = [op |-> c.op, anime_id |-> c.anime_id, ep |-> c.ep,
                       watched |-> c.watched, result |-> "Ok", read |-> c.read,
                       overwritten |-> {}]
    /\ task' = DeleteRow(task, k)
    /\ UNCHANGED <<anime_list, Clock>>

\* client.execute(UPDATE anime_state SET watched_episodes = $1 WHERE
\* anime_id = $2) and Ok(()).  last keeps the set the call had read and the
\* episodes that were in the row just before the UPDATE and are not in the
\* set it wrote over them.
EpisodeExecute(k) ==
    /\ Running(k)
    /\ LET c == task[k]
           watched_episode == Modified(c.read, c.ep, c.watched)
           row == Row(anime_state, c.anime_id)
       IN  /\ anime_state' =
                 [a \in DOMAIN anime_state |->
                    IF a = c.anime_id
                    THEN [anime_state[a] EXCEPT !.watched_episodes = watched_episode]
                    ELSE anime_state[a]]
           /\ last' = [op |-> c.op, anime_id |-> c.anime_id, ep |-> c.ep,
                       watched |-> c.watched, result |-> "Ok", read |-> c.read,
                       overwritten |-> IF row = NoRow THEN {}
                                       ELSE (row.watched_episodes \ watched_episode)
                                            \ {c.ep}]
    /\ task' = DeleteRow(task, k)
    /\ UNCHANGED <<anime_list, Clock>>

InsertRequested ==
    \E anime_id \in RequestAnimeIds :
        LET o == insert_anime_item(anime_list, anime_state, anime_id, 0) IN
        /\ Apply(o)
        /\ last' = [op |-> "insert_anime_item", anime_id |-> anime_id,
                    result |-> o.result]
        /\ UNCHANGED Session

NextEpisode ==
    \/ InsertRequested
    \/ \E k \in EpisodeTasks : EpisodeQuery(k)
    \/ \E k \in EpisodeTasks : EpisodeExecute(k)

SpecEpisode == InitDb /\ [][NextEpisode]_vars

\* C13: under SpecEpisode, an update_episode_watched_state that returns Ok
\* leaves in the row the set it read with its own episode inserted or
\* removed, whatever other calls wrote to the row since it read; C13_Witness
\* is a return after which an episode that a concurrent call had marked
\* watched is gone from the row: the update is lost.
C13_WritesBackWhatItRead ==
    (/\ last.op = "update_episode_watched_state"
     /\ last.result = "Ok"
     /\ last.anime_id \in DOMAIN anime_state)
    => anime_state[last.anime_id].watched_episodes
         = Modified(last.read, last.ep, last.watched)

C13_Witness ==
    /\ last.op = "update_episode_watched_state"
    /\ last.result = "Ok"
    /\ last.watched
    /\ last.anime_id \in DOMAIN anime_state
    /\ last.overwritten # {}
    /\ last.ep \in anime_state[last.anime_id].watched_episodes
    /\ last.overwritten \cap anime_state[last.anime_id].watched_episodes = {}
    /\ task = NoTask

(***************************************************************************)
(* The episode mark (model/mod.rs, enum Float).  An f32 is a fixed-point   *)
(* number: the integer i stands for the value i / Scale, so that the       *)
(* values on the grid, the thresholds 0.25 and 0.75 among them when Scale  *)
(* is a multiple of 4, are exact as they are in f32.                       *)
(***************************************************************************)
Scale == 2 * HalfScale

\* f32::floor, in whole units
floor(i) == i \div Scale

\* `i as i32`: the cast drops the fraction, rounding toward zero
as_i32(i) == IF i >= 0 THEN i \div Scale ELSE -((-i) \div Scale)

\* Float::Int(n), Float::Half(n)
FloatInt(n) == [variant |-> "Int", n |-> n]
FloatHalf(n) == [variant |-> "Half", n |-> n]

\* Float::new
Float_new(i) ==
    LET diff == i - Scale * floor(i) IN
    IF 4 * diff < Scale THEN FloatInt(as_i32(i))
    ELSE IF 4 * diff > 3 * Scale THEN FloatInt(as_i32(i) + 1)
    ELSE FloatHalf(as_i32(i))

\* impl Serialize for Float: the JSON number written
serialize(f) ==
    IF f.variant = "Int" THEN f.n * Scale ELSE f.n * Scale + HalfScale

\* impl Deserialize for Float: f32::deserialize, then Float::new
deserialize(number) == Float_new(number)

(***************************************************************************)
(* POST /update_episode_watched_state and the other operations on          *)
(* anime_state, one request after another.  The request body carries `ep`  *)
(* as a JSON number, a value of the grid; a whole number is written as an  *)
(* integer literal.                                                        *)
(***************************************************************************)

\* The numbers a request's `ep` may be: 1, 2, ... and the grid between them
EpValues == Scale .. (MaxEp + 1) * Scale

\* Json<UpdateEpisodeWatchedStateRequest>, field `ep: i32`: a number that is
\* not an integer is refused and the handler does not run
Json_ep(value) ==
    IF value % Scale = 0 THEN [accepted |-> TRUE, ep |-> value \div Scale]
    ELSE [accepted |-> FALSE, ep |-> 0]

\* AnimeState::from(&Row): the stored JSON array read as a HashSet<Float>
watched_episodes(row) == {deserialize(n * Scale) : n \in row.watched_episodes}

\* last keeps the row before the request (pre) and, when the request unmarks
\* the value that the request before it marked with success, the row before
\* that request (pair_pre).
PostUpdateEpisodeWatchedState ==
    \E anime_id \in AnimeIds, value \in EpValues, watched \in BOOLEAN, fail \in 0 .. 2 :
        LET req == Json_ep(value)
            o == IF req.accepted
                 THEN update_episode_watched_state(anime_list, anime_state, anime_id,
                                                   req.ep, watched, fail)
                 ELSE Outcome(anime_list, anime_state, "Rejected")
        IN
        /\ Apply(o)
        /\ last' = [op |-> "post_update_episode_watched_state",
                    anime_id |-> anime_id, value |-> value, watched |-> watched,
                    result |-> o.result,
                    pre |-> Row(anime_state, anime_id),
                    pair_pre |-> IF /\ last.op = "post_update_episode_watched_state"
                                    /\ last.anime_id = anime_id /\ last.value = value
                                    /\ last.watched /\ ~watched
                                    /\ last.result = "Ok"
                                 THEN last.pre ELSE NoRow]
        /\ UNCHANGED Session

NextWatched ==
    \/ InsertAnimeItem
    \/ UpdateAnimeVisibility
    \/ PostUpdateEpisodeWatchedState

SpecWatched == InitDb /\ [][NextWatched]_vars

\* The contract's canonicalize: frac = value - floor(value); Int(floor) when
\* frac < 0.25, Int(floor + 1) when frac > 0.75, Half(floor) otherwise
canonicalize(value) ==
    LET frac == value - Scale * floor(value) IN
    IF 4 * frac < Scale THEN FloatInt(floor(value))
    ELSE IF 4 * frac > 3 * Scale THEN FloatInt(floor(value) + 1)
    ELSE FloatHalf(floor(value))

\* A whole episode or a half episode: the value of a mark
IsMarkValue(value) == value % HalfScale = 0

\* The request that made the last step set a whole or half episode of an
\* anime that has a row, and no statement failed
SetEpisodeOfExisting ==
    /\ last.op = "post_update_episode_watched_state"
    /\ IsMarkValue(last.value)
    /\ last.pre # NoRow
    /\ last.result # "PostgresError"
    /\ last.anime_id \in DOMAIN anime_state

\* C14: under SpecWatched, after a request that sets the episode value v (a
\* whole or a half episode) of an anime that has a row, canonicalize(v) is in the anime's watched
\* episodes when the request marked it watched and is not when the request
\* unmarked it, and every other mark is in the set exactly when it was
\* before the request.
C14_SetEpisodeWatched ==
    SetEpisodeOfExisting =>
        LET mark == canonicalize(last.value)
            after == watched_episodes(anime_state[last.anime_id])
        IN  /\ last.watched => mark \in after
            /\ ~last.watched => mark \notin after
            /\ after \ {mark} = watched_episodes(last.pre) \ {mark}

\* The request that made the last step unmarked, with success, the value
\* that the request before it had marked with success, for an anime that
\* had a row
MarkedThenUnmarked ==
    /\ last.op = "post_update_episode_watched_state"
    /\ last.result = "Ok"
    /\ last.pair_pre # NoRow
    /\ last.anime_id \in DOMAIN anime_state

\* C15 as stated: under SpecWatched, marking an episode watched and then
\* unmarking it leaves the anime's watched episodes as they were before the
\* two requests.
C15_MarkThenUnmarkRestores ==
    MarkedThenUnmarked =>
        watched_episodes(anime_state[last.anime_id])
            = watched_episodes(last.pair_pre)

\* C15, amended: under SpecWatched, marking an episode watched and then
\* unmarking it leaves the anime's watched episodes as they were before the
\* two requests less that episode: as they were exactly when the episode was
\* not watched before.
C15_MarkThenUnmarkRemoves ==
    MarkedThenUnmarked =>
        LET S == watched_episodes(last.pair_pre)
            e == canonicalize(last.value)
            after == watched_episodes(anime_state[last.anime_id])
        IN  /\ after = S \ {e}
            /\ after = S <=> e \notin S

C15_Witness ==
    /\ MarkedThenUnmarked
    /\ canonicalize(last.value) \in watched_episodes(last.pair_pre)
    /\ watched_episodes(anime_state[last.anime_id])
         # watched_episodes(last.pair_pre)

(***************************************************************************)
(* Absent keys, under SpecLists and SpecWatched.                           *)
(***************************************************************************)

\* The call that made the last step fetched the one row of a key that has
\* none, and its query did not fail
FetchedAbsent ==
    /\ \/ last.op = "query_anime_by_id" /\ last.anime_id \notin DOMAIN anime_state
       \/ last.op = "get_watch_list" /\ last.title \notin DOMAIN anime_list
    /\ last.result # "PostgresError"

\* C16: under SpecLists, a fetch of the one row of a key that has no row
\* returns the domain error, AnimeNotFound for an anime id and
\* WatchListNotFound for a title, and does not fault.
C16_AbsentKeyIsNotFound ==
    FetchedAbsent =>
        last.result = IF last.op = "query_anime_by_id"
                      THEN "AnimeNotFound" ELSE "WatchListNotFound"

\* This step is a call to change the row of an anime that has none, and no
\* statement of it fails
ChangesAbsent ==
    /\ \/ /\ last'.op = "post_update_episode_watched_state"
          /\ last'.result # "Rejected"
       \/ last'.op = "update_anime_visibility"
    /\ last'.anime_id \notin DOMAIN anime_state
    /\ last'.result # "PostgresError"

\* C17: under SpecWatched, update_episode_watched_state and
\* update_anime_visibility for an anime that has no row return the domain
\* error AnimeNotFound and leave the tables as they were: they neither
\* report success nor fault.
C17_AbsentAnimeIsNotFound ==
    [][ChangesAbsent =>
          /\ last'.result = "AnimeNotFound"
          /\ UNCHANGED <<anime_list, anime_state>>]_vars

(***************************************************************************)
(* add_new_watch_list, under SpecLists.                                    *)
(***************************************************************************)

\* C18: an add_new_watch_list of a title that has no list, when its INSERT
\* does not fail, adds the list with archived = false and no animes; an
\* add_new_watch_list of a title that has a list returns the storage error;
\* either way every list there was keeps its archived flag and its animes.
C18_CreateWatchList ==
    [][last'.op = "add_new_watch_list" =>
          LET title == last'.title IN
          /\ \A t \in DOMAIN anime_list :
                t \in DOMAIN anime_list' /\ anime_list'[t] = anime_list[t]
          /\ title \notin DOMAIN anime_list /\ last'.result # "PostgresError"
                => /\ last'.result = "Ok"
                   /\ DOMAIN anime_list' = DOMAIN anime_list \cup {title}
                   /\ anime_list'[title] = [archived |-> FALSE, animes |-> <<>>]
          /\ title \in DOMAIN anime_list
                => /\ last'.result = "PostgresError"
                   /\ anime_list' = anime_list]_vars

\* A create of a title whose list is archived or holds animes was refused
C18_Witness ==
    /\ last.op = "add_new_watch_list"
    /\ last.result = "PostgresError"
    /\ last.title \in DOMAIN anime_list
    /\ anime_list[last.title] # [archived |-> FALSE, animes |-> <<>>]

\* A create of a new title, beside a list that holds animes
C18_WitnessCreated ==
    /\ last.op = "add_new_watch_list"
    /\ last.result = "Ok"
    /\ anime_list[last.title] = [archived |-> FALSE, animes |-> <<>>]
    /\ \E t \in DOMAIN anime_list : anime_list[t].animes # <<>>

(***************************************************************************)
(* The codec on its own: Float::new of a value of the grid, the mark       *)
(* serialized, the number deserialized.  last keeps the chain: the value i *)
(* first given, the mark f made of it, the number written.                 *)
(***************************************************************************)
Floats == (0 - MaxFloat * Scale) .. MaxFloat * Scale

Tables == <<anime_list, anime_state>>

FloatNew ==
    /\ \E i \in Floats :
          last' = [op |-> "Float::new", i |-> i, ret |-> Float_new(i)]
    /\ UNCHANGED <<Tables, Session>>

Serialize ==
    /\ last.op = "Float::new"
    /\ last' = [op |-> "serialize", i |-> last.i, f |-> last.ret,
                ret |-> serialize(last.ret)]
    /\ UNCHANGED <<Tables, Session>>

Deserialize ==
    /\ last.op = "serialize"
    /\ last' = [op |-> "deserialize", i |-> last.i, f |-> last.f,
                number |-> last.ret, ret |-> deserialize(last.ret)]
    /\ UNCHANGED <<Tables, Session>>

NextCodec == FloatNew \/ Serialize \/ Deserialize

SpecCodec == InitDb /\ [][NextCodec]_vars

\* C19: under SpecCodec, Float::new of a value of the grid, negative values
\* included, is the contract's canonicalize of it: with frac = value -
\* floor(value), Int(floor) when frac < 0.25, Int(floor + 1) when frac >
\* 0.75, Half(floor) otherwise.
C19_FloatNewIsCanonicalize ==
    last.op = "Float::new" => last.ret = canonicalize(last.i)

\* C20: under SpecCodec, for every value of the grid, negative values
\* included, the mark Float::new makes of it, serialized and deserialized
\* (Float::new of the number written), is that mark again.
C20_RoundTrip ==
    last.op = "deserialize" => last.ret = last.f

(***************************************************************************)
(* Equality and hashing of marks (impl PartialEq, impl Hash for Float).    *)
(* The integer component is a two's complement integer of IntBits bits.    *)
(* `i * 10` and `i * 10 + 5` overflow for large i: a build with overflow   *)
(* checks panics there, a build without them wraps; the model takes either.*)
(***************************************************************************)
Modulus == 2 ^ IntBits
MinInt == 0 - 2 ^ (IntBits - 1)
MaxInt == 2 ^ (IntBits - 1) - 1
Integers_i32 == MinInt .. MaxInt

Marks == {FloatInt(n) : n \in Integers_i32} \cup {FloatHalf(n) : n \in Integers_i32}

\* The two's complement integer that an arithmetic result wraps to
wrap(x) == ((x - MinInt) % Modulus) + MinInt

\* impl PartialEq for Float
eq(l, r) ==
    IF l.variant = "Int" /\ r.variant = "Int" THEN l.n = r.n
    ELSE IF l.variant = "Half" /\ r.variant = "Half" THEN l.n = r.n
    ELSE FALSE

HashHalfAsNextInt(f, overflow_checks) ==
    LET exact == IF f.variant = "Int" THEN f.n * 10 ELSE f.n * 10 + 10 IN
    IF overflow_checks /\ exact \notin Integers_i32
    THEN [panic |-> TRUE, value |-> 0, wrapped |-> FALSE]
    ELSE [panic |-> FALSE, value |-> wrap(exact),
          wrapped |-> exact \notin Integers_i32]

\* impl Hash for Float: the i32 handed to the hasher
hash(f, overflow_checks) ==
    LET exact == IF f.variant = "Int" THEN f.n * 10 ELSE f.n * 10 + 5 IN
    IF overflow_checks /\ exact \notin Integers_i32
    THEN [panic |-> TRUE, value |-> 0, wrapped |-> FALSE]
    ELSE [panic |-> FALSE, value |-> wrap(exact),
          wrapped |-> exact \notin Integers_i32]

\* Two marks compared and hashed, as a HashSet<Float> does; one pair a run
HashPair ==
    /\ last.op = "new"
    /\ \E l \in Marks, r \in Marks, overflow_checks \in BOOLEAN :
          last' = [op |-> "hash", l |-> l, r |-> r, eq |-> eq(l, r),
                   hash_l |-> hash(l, overflow_checks),
                   hash_r |-> hash(r, overflow_checks)]
    /\ UNCHANGED <<Tables, Session>>

NextHash == HashPair

SpecHash == InitDb /\ [][NextHash]_vars

\* C21: under SpecHash, two marks are equal exactly when they have the same
\* variant and the same integer component; equal marks hand the same value
\* to the hasher; and the value handed for an Int differs from the value
\* handed for a Half whatever their integer components, also when the
\* multiplication wraps.
C21_EqAndHash ==
    last.op = "hash" =>
        /\ last.eq <=> (last.l.variant = last.r.variant /\ last.l.n = last.r.n)
        /\ last.eq => last.hash_l = last.hash_r
        /\ (/\ last.l.variant # last.r.variant
            /\ ~last.hash_l.panic /\ ~last.hash_r.panic)
              => last.hash_l.value # last.hash_r.value

\* An Int and a Half hashed with both multiplications wrapping
C21_Witness ==
    /\ last.op = "hash"
    /\ last.l.variant = "Int" /\ last.r.variant = "Half"
    /\ last.hash_l.wrapped /\ last.hash_r.wrapped
    /\ last.hash_l.value # last.hash_r.value

(***************************************************************************)
(* The read endpoints (router/anime_router.rs, the routes added after      *)
(* .layer) among logins and logouts.  A response is the status and the     *)
(* rows of the JSON body; no rows when the handler answers an error or     *)
(* panics (status 0).                                                      *)
(***************************************************************************)
ReadRoutes == {"/list", "/get/:anime_id", "/get_anime_states", "/all",
               "/get_watch_list/:watch_list_name"}

\* What a read request names: nothing, an anime id, a set of ids, a title
ReadArgs(route) ==
    IF route = "/get/:anime_id" THEN AnimeIds
    ELSE IF route = "/get_anime_states" THEN SUBSET AnimeIds
    ELSE IF route = "/get_watch_list/:watch_list_name" THEN Titles
    ELSE {"none"}

NoRows == << >>

\* The rows of table whose key is in keys
Rows(table, keys) == [k \in DOMAIN table \cap keys |-> table[k]]

\* The read handlers: the helper's query (1) and the handler's answer;
\* rows[0] of query_anime_by_id and get_watch_list panics on no row
read_handler(route, arg, list, state, fail) ==
    IF fail = 1 THEN [status |-> 500, body |-> NoRows]
    ELSE IF route = "/list" THEN [status |-> 200, body |-> list]
    ELSE IF route = "/all" THEN [status |-> 200, body |-> state]
    ELSE IF route = "/get_anime_states"
         THEN [status |-> 200, body |-> Rows(state, arg)]
    ELSE IF route = "/get/:anime_id"
         THEN [status |-> Respond(query_anime_by_id(state, arg, fail), 200),
               body |-> Rows(state, {arg})]
    ELSE [status |-> Respond(get_watch_list(list, arg, fail), 200),
          body |-> Rows(list, {arg})]

\* The response to a read request that carries `header` while the live
\* tokens are tok
read_response(route, arg, tok, header, list, state, fail) ==
    LET mw == IF layered(route) THEN auth_middleware(tok, header)
              ELSE [next |-> TRUE, status |-> 0] IN
    IF mw.next THEN read_handler(route, arg, list, state, fail)
    ELSE [status |-> mw.status, body |-> NoRows]

ReadRequest ==
    /\ \E route \in ReadRoutes, header \in Headers, fail \in 0 .. 1 :
         \E arg \in ReadArgs(route) :
            last' = [op |-> route, arg |-> arg, fail |-> fail,
                     header |-> HeaderKind(header),
                     live |-> PresentsLiveToken(token, header),
                     response |-> read_response(route, arg, token, header,
                                                anime_list, anime_state, fail)]
    /\ UNCHANGED <<Tables, Session>>

NextRead ==
    \/ LogInNow
    \/ LogOut
    \/ InsertAnimeItem
    \/ AddNewWatchList
    \/ ReadRequest

SpecRead == Init /\ [][NextRead]_vars

\* The token vectors another run may hold
TokenVectors ==
    {<<>>} \cup {<<t>> : t \in Tokens} \cup {<<t, u>> : t \in Tokens, u \in Tokens}

\* C22: under SpecRead, a read request changes neither the tables nor the
\* live tokens, and its response is the response the same request gets from
\* the same tables and the same storage outcome with any other live tokens
\* and any other Authorization header, or none.
C22_ReadsIgnoreSession ==
    /\ [][last'.op \in ReadRoutes =>
              UNCHANGED <<anime_list, anime_state, token>>]_vars
    /\ [](last.op \in ReadRoutes =>
             \A tok \in TokenVectors, header \in Headers :
                read_response(last.op, last.arg, tok, header,
                              anime_list, anime_state, last.fail)
                    = last.response)

\* A read of a row that is there, without a header, while a token is live
C22_Witness ==
    /\ last.op = "/get/:anime_id"
    /\ last.header = "Absent"
    /\ token # <<>>
    /\ last.response.status = 200
    /\ last.response.body # NoRows

(***************************************************************************)
(* The handlers' answer to the Result of their store operation             *)
(* (router/anime_router.rs).  A response is (StatusCode, String); the      *)
(* string is the formatted tag, <<name, key>>, or NoTag when it is empty.  *)
(***************************************************************************)
Handlers == {"get_all_list", "post_insert_item", "post_add_item_to_watch_list",
             "post_add_new_watch_list", "post_update_episode_watched_state",
             "post_update_watch_list_archived", "post_update_anime_visibility",
             "get_query_anime_by_id", "post_delete_watch_list",
             "post_query_anime_states", "post_delete_anime_state_from_watch_list",
             "get_query_all_anime_states", "get_query_watch_list_by_name"}

NotFoundKinds == {"AnimeNotFound", "EpisodeNotFound", "WatchListNotFound"}

\* enum DbError, and Ok
DbResults ==
    {[kind |-> "Ok", key |-> 0], [kind |-> "PostgresError", key |-> 0]}
    \cup {[kind |-> "AnimeNotFound", key |-> k] : k \in AnimeIds}
    \cup {[kind |-> "EpisodeNotFound", key |-> k] : k \in AnimeIds}
    \cup {[kind |-> "WatchListNotFound", key |-> k] : k \in Titles}

NoTag == << >>

\* status!(X) and internal_error!(): the status and an empty string
status(code) == [status |-> code, tag |-> NoTag]

\* status!(X, "Kind:{}", key)
status_tagged(code, e) == [status |-> code, tag |-> <<e.kind, e.key>>]

\* The one domain error a handler's match answers with a tagged 4xx; the
\* other arms are internal_error!() or status!(INTERNAL_SERVER_ERROR)
tagged_arm(handler) ==
    IF handler = "post_insert_item"
        THEN [kind |-> "AnimeNotFound", status |-> 404]
    ELSE IF handler = "post_add_item_to_watch_list"
        THEN [kind |-> "AnimeNotFound", status |-> 400]
    ELSE IF handler = "post_update_episode_watched_state"
        THEN [kind |-> "EpisodeNotFound", status |-> 400]
    ELSE IF handler = "post_update_watch_list_archived"
        THEN [kind |-> "WatchListNotFound", status |-> 400]
    ELSE IF handler = "get_query_anime_by_id"
        THEN [kind |-> "AnimeNotFound", status |-> 404]
    ELSE IF handler = "get_query_watch_list_by_name"
        THEN [kind |-> "WatchListNotFound", status |-> 404]
    ELSE [kind |-> "none", status |-> 500]

\* Ok(StatusCode::CREATED), Ok(StatusCode::OK), Ok(Json(..))
ok_status(handler) ==
    IF handler \in {"post_insert_item", "post_add_item_to_watch_list",
                    "post_add_new_watch_list"} THEN 201 ELSE 200

\* if let Err(e) = &result { match e { ... } }  Ok(...)
handler_response(handler, result) ==
    IF result.kind = "Ok" THEN status(ok_status(handler))
    ELSE IF result.kind = tagged_arm(handler).kind
        THEN status_tagged(tagged_arm(handler).status, result)
    ELSE status(500)

HandleResult ==
    /\ \E handler \in Handlers, result \in DbResults :
         last' = [op |-> "respond", handler |-> handler, result |-> result,
                  response |-> handler_response(handler, result)]
    /\ UNCHANGED <<Tables, Session>>

NextBoundary == HandleResult

SpecBoundary == InitDb /\ [][NextBoundary]_vars

Callers == 1 .. MaxCallers

TokenMethods == {"auth", "gen_token", "clear_token"}

HeldNever == FALSE

\* The mutex is locked: a caller is past lock().await and before the drop
Held == \E j \in DOMAIN task : task[j].pc # "lock"

Waiters == {j \in DOMAIN task : task[j].pc = "lock"}

\* The gen_token calls in flight that have not drawn their token yet
Generating == {j \in DOMAIN task : task[j].op = "gen_token" /\ task[j].pc # "drop"}

\* The gen_token calls in flight
Generated == {j \in DOMAIN task : task[j].op = "gen_token"}

\* The first statement after lock().await
first_pc(method) == IF method = "gen_token" THEN "push" ELSE "scan"

\* A task calls a method of AppState: the lock() future joins the queue.
\* The token presented is a live one or Forged (a token that is not in the
\* vector when the call starts).
CallMethod(k) ==
    /\ ~Running(k)
    /\ \E method \in TokenMethods, in_token \in {Forged} \cup Range(token) :
        /\ method = "gen_token" =>
              /\ in_token = Forged
              /\ Cardinality(issued) + Cardinality(Generating) < MaxIssued
        /\ task' = Locals(k, [op |-> method, in_token |-> in_token,
                              pc |-> "lock",
                              ticket |-> Cardinality(Waiters) + 1,
                              seen |-> <<>>, found |-> FALSE,
                              auth_token |-> Forged, ret |-> "none"])
    /\ UNCHANGED <<Clock, Tables, last>>

\* self.token.lock().await returns the guard: the mutex is free and the
\* caller is first in the queue
Lock(k) ==
    /\ Running(k)
    /\ task[k].pc = "lock"
    /\ task[k].ticket = 1
    /\ ~Held
    /\ task' = [j \in DOMAIN task |->
                  IF j = k THEN [task[j] EXCEPT !.pc = first_pc(task[j].op),
                                                !.ticket = 0,
                                                !.seen = token]
                  ELSE [task[j] EXCEPT !.ticket = task[j].ticket - 1]]
    /\ UNCHANGED <<Clock, Tables, last>>

\* auth and clear_token: the loop over 0..token.len(); auth returns here,
\* clear_token returns when the token is not found
ScanTokens(k) ==
    /\ Running(k)
    /\ task[k].pc = "scan"
    /\ LET f == found(token, task[k].in_token) IN
       task' = Locals(k, [task[k] EXCEPT
                    !.found = f,
                    !.pc = IF task[k].op = "clear_token" /\ f THEN "remove"
                           ELSE "drop",
                    !.ret = IF task[k].op = "auth" THEN auth(token, task[k].in_token)
                            ELSE "Ok"])
    /\ UNCHANGED <<Clock, Tables, last>>

\* gen_token: token.push(auth_token.clone())
PushToken(k) ==
    /\ Running(k)
    /\ task[k].pc = "push"
    /\ \E auth_token \in {t \in Tokens \ issued : \A u \in Tokens \ issued : t <= u} :
        /\ token' = push(token, auth_token)
        /\ issued' = issued \cup {auth_token}
        /\ task' = Locals(k, [task[k] EXCEPT !.pc = "drop", !.ret = "Ok",
                                              !.auth_token = auth_token])
    /\ UNCHANGED <<mock_totp, now, Tables, last>>

\* clear_token: token.swap_remove(found as usize), which panics when the
\* index is not below the length
SwapRemove(k) ==
    /\ Running(k)
    /\ task[k].pc = "remove"
    /\ LET index == as_usize(task[k].found) IN
       IF index >= Len(token)
       THEN /\ task' = Locals(k, [task[k] EXCEPT !.pc = "drop", !.ret = "Panic"])
            /\ UNCHANGED token
       ELSE /\ task' = Locals(k, [task[k] EXCEPT !.pc = "drop"])
            /\ token' = swap_remove(token, index)
    /\ UNCHANGED <<issued, mock_totp, now, Tables, last>>

DropGuardLeaks(k) ==
    IF task[k].ret = "Panic" THEN task
    ELSE [j \in DOMAIN task \ {k} |-> task[j]]

\* The MutexGuard is dropped: the call holds the lock no longer
DropGuard(k) == [j \in DOMAIN task \ {k} |-> task[j]]

\* The method returns or unwinds, and its guard is dropped.  `overlap` notes
\* that another gen_token was in flight when a gen_token returned, or that
\* a call was waiting for the lock when a clear_token unwound.
Return(k) ==
    /\ Running(k)
    /\ task[k].pc = "drop"
    /\ task' = DropGuard(k)
    /\ last' = [op |-> task[k].op, ret |-> task[k].ret,
                overlap |-> IF task[k].op = "gen_token" THEN Generated # {k}
                            ELSE task[k].ret = "Panic" /\ Waiters # {}]
    /\ UNCHANGED <<Clock, Tables>>

\* The call of caller k goes on by one step
Poll(k) ==
    \/ Lock(k)
    \/ ScanTokens(k)
    \/ PushToken(k)
    \/ SwapRemove(k)
    \/ Return(k)

NextLock == \E k \in Callers : CallMethod(k) \/ Poll(k)

SpecLock == Init /\ [][NextLock]_vars

\* What the call of caller k does when it runs alone on the vector `seen`
Sequential(k) ==
    IF task[k].op = "auth"
        THEN [token |-> task[k].seen, ret |-> auth(task[k].seen, task[k].in_token)]
    ELSE IF task[k].op = "gen_token"
        THEN [token |-> gen_token(task[k].seen, task[k].auth_token), ret |-> "Ok"]
    ELSE [token |-> clear_token(task[k].seen, task[k].in_token).token,
          ret |-> clear_token(task[k].seen, task[k].in_token).result]

Holders == DOMAIN task \ Waiters

\* C24: under SpecLock, at most one caller is between lock().await and the
\* drop of its guard; the token vector changes only in a step of that
\* caller; and when a call returns, the vector and the result are those of
\* the whole method run alone on the vector the caller found when it
\* acquired the lock, so the calls take effect one after the other in the
\* order of acquisition.  A gen_token that returns leaves its own token and
\* every token it found in the vector.
C24_TokenCallsAreAtomic ==
    /\ [](Cardinality(Holders) <= 1)
    /\ [][/\ token' # token =>
                \E k \in Holders : task'[k].pc # task[k].pc
          /\ \A k \in DOMAIN task \ DOMAIN task' :
                /\ token = Sequential(k).token
                /\ task[k].ret = Sequential(k).ret
                /\ task[k].op = "gen_token" =>
                      Range(task[k].seen) \cup {task[k].auth_token} \subseteq Range(token)]_vars

\* Two gen_token calls in flight together: one returned while the other,
\* the only call still running, was in flight; that one has pushed its token
\* too, and both tokens are live
C24_Witness ==
    /\ last.op = "gen_token"
    /\ last.overlap
    /\ \E k \in Callers :
          /\ DOMAIN task = {k}
          /\ task[k].op = "gen_token"
          /\ task[k].pc = "drop"
          /\ Len(token) = 2
          /\ Range(token) = issued

\* The runtime polls every task that can make progress, and the mutex wakes
\* its waiters in the order they came: a call whose next step stays enabled
\* eventually takes it.
FairLock == SpecLock /\ \A k \in Callers : WF_vars(Poll(k))

\* C30: under FairLock, every caller that waits for the lock acquires it,
\* every caller that holds the lock releases it, and so every call of
\* auth, gen_token and clear_token returns, a clear_token that panics in
\* swap_remove included.
C30_EveryCallReturns ==
    \A k \in Callers :
        /\ (k \in Waiters) ~> (k \in Holders)
        /\ (k \in Holders) ~> ~Running(k)

\* A clear_token has panicked and unwound while another call was waiting
\* for the lock, and that call now holds it
C30_Witness ==
    /\ last.op = "clear_token"
    /\ last.ret = "Panic"
    /\ last.overlap
    /\ Holders # {}
    /\ DOMAIN task = Holders

\* C25: under SpecDb, delete_watch_list of a title that has no row leaves
\* every watch list and every anime state as it was and, unless the
\* statement itself fails in the database, returns Ok, which
\* post_delete_watch_list answers with 200.
C25_DeleteAbsentSucceeds ==
    [][(last'.op = "delete_watch_list" /\ last'.title \notin DOMAIN anime_list) =>
          /\ UNCHANGED <<anime_list, anime_state>>
          /\ last'.result # "PostgresError" =>
                /\ last'.result = "Ok"
                /\ handler_response("post_delete_watch_list",
                                    [kind |-> last'.result, key |-> 0]) = status(200)]_vars

\* A delete of an absent title returned Ok while lists and states exist
C25_Witness ==
    /\ last.op = "delete_watch_list"
    /\ ~last.existed
    /\ last.result = "Ok"
    /\ DOMAIN anime_list # {}
    /\ DOMAIN anime_state # {}

(***************************************************************************)
(* The members of the watch lists: lists are created and archived, animes  *)
(* inserted, added to lists and removed from them.  last keeps, of a       *)
(* remove, the animes of the list before the call and the awaited call     *)
(* that failed.                                                            *)
(***************************************************************************)
DeleteAnimeStateFromWatchListCall ==
    \E anime_id \in AnimeIds, title \in Titles, fail \in 0 .. 5 :
        LET o == delete_anime_state_from_watch_list(anime_list, anime_state,
                                                    anime_id, title, fail) IN
        /\ Apply(o)
        /\ last' = [op |-> "delete_anime_state_from_watch_list",
                    anime_id |-> anime_id, title |-> title,
                    result |-> o.result,
                    pre_row |-> Row(anime_state, anime_id),
                    pre_holders |-> Containing(anime_list, anime_id),
                    pre_animes |-> Members(anime_list, title),
                    fail |-> IF o.result = "PostgresError" THEN fail ELSE 0]
        /\ UNCHANGED Session

NextMembers ==
    \/ InsertAnimeItem
    \/ AddNewWatchList
    \/ AddItemToWatchList
    \/ UpdateWatchListArchiveState
    \/ DeleteAnimeStateFromWatchListCall

SpecMembers == InitDb /\ [][NextMembers]_vars

\* The elements of animes other than anime_id, in their order
Others(animes, anime_id) == SelectSeq(animes, LAMBDA x : x # anime_id)

C27_RemoveFrame ==
    [][last'.op = "delete_anime_state_from_watch_list" =>
          /\ DOMAIN anime_list' = DOMAIN anime_list
          /\ \A t \in DOMAIN anime_list :
                /\ anime_list'[t].archived = anime_list[t].archived
                /\ t # last'.title => anime_list'[t].animes = anime_list[t].animes
          /\ DOMAIN anime_state' \subseteq DOMAIN anime_state
          /\ \A a \in DOMAIN anime_state \ {last'.anime_id} :
                /\ a \in DOMAIN anime_state'
                /\ anime_state'[a] = anime_state[a]]_vars

\* A remove from a title that has no row, while another list holds animes,
\* is archived, and another anime has a row
C27_Witness ==
    /\ last.op = "delete_anime_state_from_watch_list"
    /\ last.result = "Ok"
    /\ last.title \notin DOMAIN anime_list
    /\ \E t \in DOMAIN anime_list : anime_list[t].animes # <<>> /\ anime_list[t].archived
    /\ \E a \in DOMAIN anime_state : a # last.anime_id

\* C28: under Spec, a request to a layered route whose Authorization header
\* is absent, or whose value is not two words between single spaces, is
\* answered 401 and its handler does not run; a request whose value is two
\* words goes on to its handler exactly when the second word is a live
\* token.
C28_MalformedHeaderIs401 ==
    (last.op \in MutatingRoutes /\ layered(last.op)) =>
        /\ last.header # "TwoWords" => last.status = 401 /\ ~last.handled
        /\ last.header = "TwoWords" => (last.handled <=> last.live)

\* C29: under SpecMembers, when delete_anime_state_from_watch_list(anime_id,
\* title) returns a PostgresError, anime_state is what it was before the
\* call; when the array_remove failed (awaited calls 1, 2) anime_list is
\* unchanged too; when the SELECT (3, 4) or the DELETE (5) failed, anime_id
\* has been removed from the animes of title and the row of anime_id is
\* still the one the call found: the call ends at the failure.
C29_RemoveFailureKeepsState ==
    [][(/\ last'.op = "delete_anime_state_from_watch_list"
        /\ last'.result = "PostgresError") =>
          /\ anime_state' = anime_state
          /\ last'.fail \in 1 .. 5
          /\ last'.fail \in {1, 2} => anime_list' = anime_list
          /\ last'.fail \in {3, 4, 5} =>
                /\ last'.anime_id \notin Range(Members(anime_list', last'.title))
                /\ Others(Members(anime_list', last'.title), last'.anime_id)
                      = Others(Members(anime_list, last'.title), last'.anime_id)
                /\ Row(anime_state', last'.anime_id) = last'.pre_row]_vars

\* The SELECT failed after the anime was removed from the only list that
\* held it: it is in no list and its row is still there
C29_Witness ==
    /\ last.op = "delete_anime_state_from_watch_list"
    /\ last.result = "PostgresError"
    /\ last.fail \in {3, 4}
    /\ last.pre_holders = {last.title}
    /\ Containing(anime_list, last.anime_id) = {}
    /\ last.anime_id \in DOMAIN anime_state

====
